---- MODULE Spec2Model ----
(***************************************************************************)
(* Model of the Dojo Bridge WebSocket handler (services/bridge/bridge.py): *)
(* CombatSession and its time accounting, the cancellable ElevenLabs       *)
(* stream, and the message loop of ws_audio_stream with its two exception  *)
(* handlers.  Time is an integer number of clock ticks; TicksPerSec ticks  *)
(* make one second, so int(x) of a duration x is x \div TicksPerSec.       *)
(***************************************************************************)
EXTENDS Integers, Sequences, FiniteSets, TLC

\* ---------------------------------------------------------------- bounds
MaxTime == 5          \* the clock runs from T0 to MaxTime ticks
TicksPerSec == 2      \* clock resolution: ticks per second
MaxChunks == 2        \* most chunks one synthesis response carries
MaxSessions == 2      \* most CombatSession objects one connection creates
MaxCalls == 3         \* session ids the Steward is called with: 1..MaxCalls
MaxLines == 2         \* most transcript lines one GhostBuffer is given

T0 == 1               \* time.time() when the connection opens (never 0)
None == -1            \* Python None in a timestamp field
NoneStr == "None"     \* Python None / absent key in a string field

UserIds == {"u1"}
Personas == {"hazel", "rex"}
Callers == {"555-0000"}
Voices == {"v1"}
Texts == {"hi"}

\* ------------------------------------------------------------ state
VARIABLES
  now,            \* the value time.time() returned last
  session,        \* the handler's current CombatSession
  next_id,        \* uuid4 source: the next fresh session id
  pc,             \* where ws_audio_stream is suspended
  conn,           \* transport: "open" or "gone"
  sent,           \* events sent to the client for the message in hand
  scored,         \* ids of the sessions posted to the Steward, in order
  posted,         \* payloads posted while handling the message in hand
  stream,         \* the open synthesis stream of the current request
  api_key,        \* ELEVENLABS_API_KEY is non-empty
  default_voice,  \* ELEVENLABS_VOICE_ID
  failure,        \* what raised in the handler, "none" if nothing did
  req,            \* action of the message being handled
  hist,           \* history: facts about earlier steps the claims refer to
  users,          \* Steward: the users table, user_id -> row
  call_sessions,  \* Steward: the call_sessions table, session_id -> row
  reply,          \* the last call made to a collaborator and what it returned
  buffer,         \* GhostBuffer: self.buffer, a list of strings
  ghost           \* GhostBuffer: the calls made on it and the last return

\* the WebSocket handler of the bridge, and the collaborator services
bridge == <<now, session, next_id, pc, conn, sent, scored, posted, stream,
            api_key, default_voice, failure, req, hist>>
gb == <<buffer, ghost>>
svc == <<users, call_sessions, reply, buffer, ghost>>

vars == <<now, session, next_id, pc, conn, sent, scored, posted, stream,
          api_key, default_voice, failure, req, hist, users, call_sessions,
          reply, buffer, ghost>>

\* Python truthiness of a timestamp-or-None and of a string-or-None
Truthy(x) == x # None /\ x # 0
TruthyStr(x) == x # NoneStr /\ x # ""

\* int(x) for a non-negative duration in ticks: whole seconds
IntSec(x) == x \div TicksPerSec

\* --------------------------------------------------- CombatSession
CombatSession(id, t) ==
  [session_id |-> id, mode |-> "auto", user_id |-> "anonymous",
   caller_number |-> "unknown", persona |-> "hazel", start_time |-> t,
   barge_in_time |-> None, live_seconds |-> 0, auto_seconds |-> 0,
   is_active |-> FALSE, cancel |-> FALSE]

\* session = CombatSession(); session.is_active = True
NewActiveSession(id, t) == [CombatSession(id, t) EXCEPT !.is_active = TRUE]

barge_in_mut_credit(s, user_id, t) ==
  [s EXCEPT !.user_id = IF TruthyStr(user_id) THEN user_id ELSE @,
            !.mode = "live",
            !.live_seconds = IF Truthy(s.barge_in_time)
                               THEN @ + (t - s.barge_in_time) ELSE @,
            !.barge_in_time = t,
            !.cancel = TRUE]

barge_in(s, user_id, t) ==
  [s EXCEPT !.user_id = IF TruthyStr(user_id) THEN user_id ELSE @,
            !.mode = "live",
            !.barge_in_time = t,
            !.cancel = TRUE]

\* the shared "if self.barge_in_time: live_seconds += ...; = None" block
close_interval_mut_always(s, t) ==
  [s EXCEPT !.live_seconds = @ + (t - s.barge_in_time),
            !.barge_in_time = None]

close_interval_mut_sub(s, t) ==
  IF Truthy(s.barge_in_time)
    THEN [s EXCEPT !.live_seconds = @ - (t - s.barge_in_time),
                   !.barge_in_time = None]
    ELSE s

close_interval_mut_open(s, t) ==
  IF Truthy(s.barge_in_time)
    THEN [s EXCEPT !.live_seconds = @ + (t - s.barge_in_time)]
    ELSE s

close_interval(s, t) ==
  IF Truthy(s.barge_in_time)
    THEN [s EXCEPT !.live_seconds = @ + (t - s.barge_in_time),
                   !.barge_in_time = None]
    ELSE s

barge_out_mut_skip(s, t) ==
  [(IF t > s.barge_in_time THEN close_interval(s, t) ELSE s)
     EXCEPT !.mode = "auto", !.cancel = FALSE]

barge_out_mut_mode(s, t) ==
  [close_interval(s, t) EXCEPT !.cancel = FALSE]

barge_out_mut_signal(s, t) ==
  [close_interval(s, t) EXCEPT !.mode = "auto"]

barge_out(s, t) ==
  [close_interval(s, t) EXCEPT !.mode = "auto", !.cancel = FALSE]

end_mut_active(s, t) ==
  LET c == close_interval(s, t)
      total == t - c.start_time
  IN [c EXCEPT !.auto_seconds = total - c.live_seconds]

end_mut_swap(s, t) ==
  LET c == close_interval(s, t)
      total == t - c.start_time
  IN [c EXCEPT !.auto_seconds = c.live_seconds - total,
               !.is_active = FALSE]

end(s, t) ==
  LET c == close_interval(s, t)
      total == t - c.start_time
  IN [c EXCEPT !.auto_seconds = total - c.live_seconds,
               !.is_active = FALSE]

total_duration(s, t) == IntSec(t - s.start_time)

\* payload of score_session, built when the call starts
ScorePayload_mut_mode(s, t) ==
  [user_id |-> s.user_id, session_id |-> s.session_id,
   duration_seconds |-> total_duration(s, t),
   mode |-> s.mode,
   scam_type |-> "combat_ring"]

ScorePayload(s, t) ==
  [user_id |-> s.user_id, session_id |-> s.session_id,
   duration_seconds |-> total_duration(s, t),
   mode |-> IF s.live_seconds > 0 THEN "live" ELSE "auto",
   scam_type |-> "combat_ring"]

NoStream == [left |-> 0, total |-> 0]

NoHist ==
  [live_since |-> None,    \* when the current session last went Auto -> Live
   live_before |-> 0,      \* live_seconds at that moment
   in_ack |-> None,        \* when the last barge_in_ack of the open interval
                           \* was sent
   barged |-> FALSE,       \* barge_in was called on the current session
   cancel_hit |-> FALSE,   \* the signal was set while this request streamed
   late |-> 0,             \* chunks of this request forwarded with it set
   upstream |-> None,      \* chunks the synthesis response of it carries
   voice |-> NoneStr,      \* the voice this request resolved
   text |-> NoneStr,       \* text_to_speak of this request, once it is known
   exit_via |-> "none",    \* exception that ended the handler
   exit_at |-> "none",     \* the await that raised it
   exit_live |-> FALSE,    \* the session was Live with time on the interval
   exit_active |-> FALSE]  \* session.is_active when it was raised

\* facts that are per request are reset when the next message is read
NewRequest(h) ==
  [h EXCEPT !.cancel_hit = FALSE, !.late = 0, !.upstream = None,
            !.voice = NoneStr, !.text = NoneStr]

\* an empty table, and the reply before any call was made
NoRows == [k \in {} |-> 0]

NoReply ==
  [op |-> "none", number |-> NoneStr, lookup |-> NoneStr, backend |-> NoneStr,
   mode |-> NoneStr, duration |-> 0, raised |-> "none", status |-> 0,
   credits_earned |-> 0, new_level |-> 0, action |-> NoneStr,
   multiplier |-> NoneStr, persona_suggestion |-> NoneStr,
   text |-> NoneStr]

\* before any call was made on the GhostBuffer
NoGhost == [op |-> "none", calls |-> <<>>, ret |-> <<>>]

Init ==
  /\ now = T0
  /\ session = NewActiveSession(1, T0)
  /\ next_id = 2
  /\ pc = "recv"
  /\ conn = "open"
  /\ sent = <<>>
  /\ scored = <<>>
  /\ posted = <<>>
  /\ stream = NoStream
  /\ api_key \in BOOLEAN
  /\ default_voice = ""
  /\ failure = "none"
  /\ req = "none"
  /\ hist = NoHist
  /\ users = NoRows
  /\ call_sessions = NoRows
  /\ reply = NoReply
  /\ buffer = <<>>
  /\ ghost = NoGhost

\* --------------------------------------------------------- events
Ev(type) == [type |-> type]
BargeInAck(s) ==
  [type |-> "barge_in_ack", session_id |-> s.session_id, mode |-> "live",
   xp_multiplier |-> 5]
BargeOutAck_mut_ceil(s, persona) ==
  [type |-> "barge_out_ack", mode |-> "auto", persona |-> persona,
   live_seconds |-> IntSec(s.live_seconds + TicksPerSec - 1)]

BargeOutAck(s, persona) ==
  [type |-> "barge_out_ack", mode |-> "auto", persona |-> persona,
   live_seconds |-> IntSec(s.live_seconds)]
SessionScored(s, t, score) ==
  [type |-> "session_scored", session_id |-> s.session_id,
   total_duration |-> total_duration(s, t),
   live_seconds |-> IntSec(s.live_seconds),
   auto_seconds |-> IntSec(s.auto_seconds), steward |-> score]
Streaming_mut_mode(s, triage, actor_text) ==
  [type |-> "streaming", session_id |-> s.session_id, triage |-> triage,
   actor_text |-> actor_text, mode |-> "auto"]

Streaming(s, triage, actor_text) ==
  [type |-> "streaming", session_id |-> s.session_id, triage |-> triage,
   actor_text |-> actor_text, mode |-> s.mode]
ErrorEv(msg) == [type |-> "error", error |-> msg]
Chunk_mut_first(i) == [type |-> "chunk", seq |-> 1]

Chunk(i) == [type |-> "chunk", seq |-> i]

\* ---------------------------------------------------------- the clock
\* time.time() never runs backwards: a handler that reads the clock is given
\* the reading t, no earlier than the last one, and t becomes the last one
Clock == now..MaxTime

\* ------------------------------------------- how a step of the loop ends
\* the handler goes on: s is the session, log what the client has been sent,
\* t the last clock reading
Continue(s, log, nextpc, h, t) ==
  /\ session' = s
  /\ sent' = log
  /\ pc' = nextpc
  /\ hist' = h
  /\ now' = t
  /\ UNCHANGED <<scored, posted, failure>>

ExitRecord(h, s, via, at, t) ==
  [h EXCEPT !.exit_via = via, !.exit_at = at,
            !.exit_live = (s.mode = "live" /\ Truthy(s.barge_in_time)
                           /\ t > s.barge_in_time),
            !.exit_active = s.is_active]

\* except WebSocketDisconnect: end and score the session if it is active
OnWebSocketDisconnect_mut_noend(s, log, h, at, t) ==
  /\ session' = s
  /\ scored' = IF s.is_active THEN Append(scored, s.session_id) ELSE scored
  /\ posted' = IF s.is_active
                 THEN Append(posted, ScorePayload(s, t))
                 ELSE posted
  /\ sent' = log
  /\ pc' = "closed"
  /\ failure' = "disconnect"
  /\ hist' = ExitRecord(h, s, "WebSocketDisconnect", at, t)
  /\ now' = t

OnWebSocketDisconnect(s, log, h, at, t) ==
  /\ session' = IF s.is_active THEN end(s, t) ELSE s
  /\ scored' = IF s.is_active THEN Append(scored, s.session_id) ELSE scored
  /\ posted' = IF s.is_active
                 THEN Append(posted, ScorePayload(end(s, t), t))
                 ELSE posted
  /\ sent' = log
  /\ pc' = "closed"
  /\ failure' = "disconnect"
  /\ hist' = ExitRecord(h, s, "WebSocketDisconnect", at, t)
  /\ now' = t

\* except Exception: log it, try to send {"error": str(e)}, fall out
OnException_mut_silent(s, log, h, cause, at, transport, t) ==
  /\ session' = s
  /\ UNCHANGED <<scored, posted>>
  /\ sent' = log
  /\ pc' = "closed"
  /\ failure' = cause
  /\ hist' = ExitRecord(h, s, "Exception", at, t)
  /\ now' = t

OnException(s, log, h, cause, at, transport, t) ==
  /\ session' = s
  /\ UNCHANGED <<scored, posted>>
  /\ sent' = IF transport = "open" THEN Append(log, ErrorEv(cause)) ELSE log
  /\ pc' = "closed"
  /\ failure' = cause
  /\ hist' = ExitRecord(h, s, "Exception", at, t)
  /\ now' = t

\* what a send on a transport that is gone raises depends on the ASGI
\* server and the WebSocket library underneath
SendFailKinds == {"WebSocketDisconnect", "Exception"}

SendFailure(s, log, h, at, t0) ==
  \E k \in SendFailKinds :
    IF k = "WebSocketDisconnect"
      THEN \E t \in t0..MaxTime : OnWebSocketDisconnect(s, log, h, at, t)
      ELSE OnException(s, log, h, "send", at, "gone", t0)

\* await ws.send_json(ev), then `continue`; up: the client is still there
SendThen(s, log, ev, nextpc, h, up, at, t0) ==
  IF up
    THEN Continue(s, Append(log, ev), nextpc, h, t0) /\ conn' = conn
    ELSE SendFailure(s, log, h, at, t0) /\ conn' = "gone"

\* ------------------------------------------------ while True: receive
\* `continue`, or the end of the loop body: the handler is back in
\* receive_text and the record of the finished request is dropped
AwaitNext ==
  /\ pc = "handled"
  /\ pc' = "recv"
  /\ sent' = <<>>
  /\ req' = "none"
  /\ hist' = NewRequest(hist)
  /\ posted' = <<>>
  /\ UNCHANGED <<now, session, next_id, conn, scored, stream, api_key,
                 default_voice, failure>>
  /\ UNCHANGED svc

Receiving_mut_any == pc \in {"recv", "stream"} /\ conn = "open"

Receiving_mut_open == pc \in {"recv", "open"} /\ conn = "open"

Receiving == pc = "recv" /\ conn = "open"

\* the client has gone: receive_text raises WebSocketDisconnect
RecvDisconnect(t) ==
  /\ Receiving
  /\ OnWebSocketDisconnect(session, <<>>, NewRequest(hist), "recv", t)
  /\ conn' = "gone"
  /\ req' = "none"
  /\ UNCHANGED <<next_id, stream, api_key, default_voice>>
  /\ UNCHANGED svc

\* json.loads(raw) raises, or the JSON value has no .get
RecvMalformed ==
  /\ Receiving
  /\ OnException(session, <<>>, NewRequest(hist), "json", "recv", conn, now)
  /\ req' = "malformed"
  /\ UNCHANGED <<next_id, conn, stream, api_key, default_voice>>
  /\ UNCHANGED svc

RecvBargeIn(user_id, up, t) ==
  /\ Receiving
  /\ LET s1 == barge_in(session, user_id, t)
         h1 == [NewRequest(hist) EXCEPT
                  !.barged = TRUE,
                  !.live_since = IF session.mode = "live" THEN @ ELSE t,
                  !.live_before = IF session.mode = "live" THEN @
                                  ELSE session.live_seconds]
         h2 == IF up THEN [h1 EXCEPT !.in_ack = t] ELSE h1
     IN SendThen(s1, <<>>, BargeInAck(s1), "handled", h2, up, "send", t)
  /\ req' = "barge_in"
  /\ UNCHANGED <<next_id, stream, api_key, default_voice>>
  /\ UNCHANGED svc

RecvBargeOut(persona, up, t) ==
  /\ Receiving
  /\ LET new_persona == IF persona = NoneStr THEN session.persona ELSE persona
         s1 == [barge_out(session, t) EXCEPT !.persona = new_persona]
         h1 == [NewRequest(hist) EXCEPT !.live_since = None,
                                        !.live_before = 0, !.in_ack = None]
     IN SendThen(s1, <<>>, BargeOutAck(s1, new_persona), "handled", h1, up,
                 "send", t)
  /\ req' = "barge_out"
  /\ UNCHANGED <<next_id, stream, api_key, default_voice>>
  /\ UNCHANGED svc

\* session.end(); score = await score_session(session) is entered
RecvEndSession(t) ==
  /\ Receiving
  /\ next_id <= MaxSessions
  /\ LET s1 == end(session, t)
     IN /\ session' = s1
        /\ scored' = Append(scored, s1.session_id)
        /\ posted' = <<ScorePayload(s1, t)>>
  /\ now' = t
  /\ sent' = <<>>
  /\ pc' = "scoring"
  /\ hist' = [NewRequest(hist) EXCEPT !.live_since = None, !.live_before = 0,
                                      !.in_ack = None]
  /\ req' = "end_session"
  /\ UNCHANGED <<next_id, conn, stream, api_key, default_voice, failure>>
  /\ UNCHANGED svc

\* the Steward call returns (a result or None); session_scored is sent and
\* the session is replaced
ScoreReturn_mut_reuse(score, up, t) ==
  /\ pc = "scoring"
  /\ IF up
       THEN /\ sent' = Append(sent, SessionScored(session, t, score))
            /\ session' = [session EXCEPT !.is_active = TRUE]
            /\ next_id' = next_id + 1
            /\ pc' = "handled"
            /\ hist' = NoHist
            /\ now' = t
            /\ UNCHANGED <<scored, posted, failure, conn>>
       ELSE /\ SendFailure(session, sent, hist, "send", t)
            /\ conn' = "gone"
            /\ next_id' = next_id
  /\ UNCHANGED <<stream, api_key, default_voice, req>>
  /\ UNCHANGED svc

ScoreReturn_mut_raise(score, up, t) ==
  /\ pc = "scoring"
  /\ IF score = NoneStr
       THEN /\ OnException(session, sent, hist, "scoring", "upstream", conn, t)
            /\ UNCHANGED <<conn, next_id>>
       ELSE IF up
         THEN /\ sent' = Append(sent, SessionScored(session, t, score))
              /\ session' = NewActiveSession(next_id, t)
              /\ next_id' = next_id + 1
              /\ pc' = "handled"
              /\ hist' = NoHist
              /\ now' = t
              /\ UNCHANGED <<scored, posted, failure, conn>>
         ELSE /\ SendFailure(session, sent, hist, "send", t)
              /\ conn' = "gone"
              /\ next_id' = next_id
  /\ UNCHANGED <<stream, api_key, default_voice, req>>
  /\ UNCHANGED svc

ScoreReturn(score, up, t) ==
  /\ pc = "scoring"
  /\ IF up
       THEN /\ sent' = Append(sent, SessionScored(session, t, score))
            /\ session' = NewActiveSession(next_id, t)
            /\ next_id' = next_id + 1
            /\ pc' = "handled"
            /\ hist' = NoHist
            /\ now' = t
            /\ UNCHANGED <<scored, posted, failure, conn>>
       ELSE /\ SendFailure(session, sent, hist, "send", t)
            /\ conn' = "gone"
            /\ next_id' = next_id
  /\ UNCHANGED <<stream, api_key, default_voice, req>>
  /\ UNCHANGED svc

\* ------------------------------------------------ tts and combat
\* voice = msg.get("voice_id", ELEVENLABS_VOICE_ID)
VoiceOf(voice_id) == IF voice_id = NoneStr THEN default_voice ELSE voice_id

\* if not ELEVENLABS_API_KEY or not voice
NotConfigured_mut_key(voice_id) == ~api_key

NotConfigured(voice_id) == ~api_key \/ ~TruthyStr(VoiceOf(voice_id))

\* session._cancel_event.clear() before the stream is opened
ClearCancel_mut_keep(s) == s

ClearCancel(s) == [s EXCEPT !.cancel = FALSE]

\* from `if not text_to_speak` on: s is the session, log what was sent
Speak_mut_nocheck(s, log, text_to_speak, h, up) ==
  /\ Continue(ClearCancel(s), log, "open", [h EXCEPT !.text = text_to_speak],
              now)
  /\ conn' = conn

Speak(s, log, text_to_speak, h, up) ==
  LET h1 == [h EXCEPT !.text = text_to_speak]
  IN IF ~TruthyStr(text_to_speak)
       THEN SendThen(s, log, ErrorEv("No text provided"), "handled", h1, up,
                     "send", now)
       ELSE Continue(ClearCancel(s), log, "open", h1, now) /\ conn' = conn

\* any action that is not barge_in, barge_out, end_session or combat takes
\* the direct TTS branch; action defaults to "tts"
RecvTts(action, voice_id, text, up) ==
  /\ Receiving
  /\ LET h1 == [NewRequest(hist) EXCEPT !.voice = VoiceOf(voice_id)]
     IN IF NotConfigured(voice_id)
          THEN SendThen(session, <<>>, ErrorEv("ElevenLabs not configured"),
                        "handled", h1, up, "send", now)
          ELSE Speak(session, <<>>, IF text = NoneStr THEN "" ELSE text, h1,
                     up)
  /\ req' = action
  /\ UNCHANGED <<next_id, stream, api_key, default_voice>>
  /\ UNCHANGED svc

\* upstream: what the two upstream calls do: triage raises, the Actor call
\* raises, or both answer and resp.json().get("response", "") is the text
RecvCombat(voice_id, caller, persona, upstream, up) ==
  /\ Receiving
  /\ LET s1 == [session EXCEPT
                  !.caller_number = IF caller = NoneStr THEN "unknown"
                                    ELSE caller,
                  !.persona = IF persona = NoneStr THEN "hazel" ELSE persona]
         h1 == [NewRequest(hist) EXCEPT !.voice = VoiceOf(voice_id)]
         triage_ok == upstream # "triage_fail"
         actor_ok == upstream # "actor_fail"
         actor_text == upstream
     IN IF NotConfigured(voice_id)
          THEN SendThen(session, <<>>, ErrorEv("ElevenLabs not configured"),
                        "handled", h1, up, "send", now)
          ELSE IF ~triage_ok
            THEN OnException(s1, <<>>, h1, "triage", "upstream", conn, now)
                 /\ conn' = conn
          ELSE IF ~actor_ok
            THEN OnException(s1, <<>>, h1, "persona", "upstream", conn, now)
                 /\ conn' = conn
          ELSE IF ~up
            THEN SendFailure(s1, <<>>, h1, "send", now) /\ conn' = "gone"
          ELSE Speak(s1, <<Streaming(s1, "triage", actor_text)>>,
                     actor_text, h1, TRUE)
  /\ req' = "combat"
  /\ UNCHANGED <<next_id, stream, api_key, default_voice>>
  /\ UNCHANGED svc

\* ----------------------------------------- elevenlabs_tts_stream
\* client.stream("POST", ...) answers: 200 with n chunks to come, or not 200
StreamOpen_mut_silent(ok, n) ==
  /\ pc = "open"
  /\ stream' = IF ok THEN [left |-> n, total |-> n] ELSE NoStream
  /\ pc' = "stream"
  /\ hist' = IF ok THEN [hist EXCEPT !.upstream = n] ELSE hist
  /\ UNCHANGED <<now, session, sent, scored, posted, failure>>
  /\ UNCHANGED <<next_id, conn, api_key, default_voice, req>>
  /\ UNCHANGED svc

StreamOpen(ok, n) ==
  /\ pc = "open"
  /\ IF ok
       THEN /\ stream' = [left |-> n, total |-> n]
            /\ pc' = "stream"
            /\ hist' = [hist EXCEPT !.upstream = n]
            /\ UNCHANGED <<now, session, sent, scored, posted, failure>>
       ELSE /\ OnException(session, sent, hist, "synthesis", "upstream", conn,
                           now)
            /\ stream' = NoStream
  /\ UNCHANGED <<next_id, conn, api_key, default_voice, req>>
  /\ UNCHANGED svc

\* if cancel_event and cancel_event.is_set(): return
GenCancelled_mut_never(s) == FALSE

GenCancelled(s) == s.cancel

\* the generator yields the next chunk and the loop body sends it
StreamChunk(up) ==
  /\ pc = "stream"
  /\ stream.left > 0
  /\ ~GenCancelled(session)
  /\ IF up
       THEN /\ sent' = Append(sent, Chunk(stream.total - stream.left + 1))
            /\ stream' = [stream EXCEPT !.left = @ - 1]
            /\ hist' = [hist EXCEPT
                          !.late = IF session.cancel THEN @ + 1 ELSE @]
            /\ UNCHANGED <<now, session, pc, scored, posted, failure, conn>>
       ELSE /\ SendFailure(session, sent, hist, "chunk", now)
            /\ conn' = "gone"
            /\ stream' = NoStream
  /\ UNCHANGED <<next_id, api_key, default_voice, req>>
  /\ UNCHANGED svc

\* the response body breaks off: aiter_bytes raises
StreamFail ==
  /\ pc = "stream"
  /\ stream.left > 0
  /\ OnException(session, sent, hist, "synthesis", "upstream", conn, now)
  /\ stream' = NoStream
  /\ UNCHANGED <<next_id, conn, api_key, default_voice, req>>
  /\ UNCHANGED svc

\* if session.cancelled: stream_interrupted else: done
Terminal_mut_status(s) == Ev("streaming")

Terminal(s) ==
  IF s.cancel
    THEN [type |-> "stream_interrupted", reason |-> "barge_in"]
    ELSE Ev("done")

\* the generator is exhausted or has returned early; the terminal status
StreamEnd(up) ==
  /\ pc = "stream"
  /\ stream.left = 0 \/ GenCancelled(session)
  /\ IF up
       THEN /\ sent' = Append(sent, Terminal(session))
            /\ pc' = "handled"
            /\ UNCHANGED <<now, session, scored, posted, failure, hist, conn>>
       ELSE SendFailure(session, sent, hist, "send", now) /\ conn' = "gone"
  /\ stream' = NoStream
  /\ UNCHANGED <<next_id, api_key, default_voice, req>>
  /\ UNCHANGED svc

\* another task holding the session sets its event while the stream is
\* suspended between two chunks
ExternalCancel ==
  /\ pc = "stream"
  /\ ~session.cancel
  /\ session' = [session EXCEPT !.cancel = TRUE]
  /\ hist' = [hist EXCEPT !.cancel_hit = TRUE]
  /\ UNCHANGED <<now, next_id, pc, conn, sent, scored, posted, stream,
                 api_key, default_voice, failure, req>>
  /\ UNCHANGED svc

\* ------------------------------------------------------------- Next
MsgUserIds == UserIds \cup {NoneStr}
MsgPersonas == (Personas \ {"hazel"}) \cup {NoneStr}
MsgVoices == Voices \cup {NoneStr}
MsgTexts == Texts \cup {NoneStr}
MsgCallers == Callers
UpstreamOutcomes == {"triage_fail", "actor_fail", ""} \cup Texts

Next ==
  \/ AwaitNext
  \/ \E t \in Clock : RecvDisconnect(t)
  \/ RecvMalformed
  \/ \E u \in MsgUserIds, up \in BOOLEAN, t \in Clock : RecvBargeIn(u, up, t)
  \/ \E p \in MsgPersonas, up \in BOOLEAN, t \in Clock : RecvBargeOut(p, up, t)
  \/ \E t \in Clock : RecvEndSession(t)
  \/ \E score \in {"ok", NoneStr}, up \in BOOLEAN, t \in Clock :
        ScoreReturn(score, up, t)
  \/ \E a \in {"tts", "other"}, v \in MsgVoices, t \in MsgTexts,
        up \in BOOLEAN : RecvTts(a, v, t, up)
  \/ \E v \in MsgVoices, c \in MsgCallers, p \in MsgPersonas,
        r \in UpstreamOutcomes, up \in BOOLEAN : RecvCombat(v, c, p, r, up)
  \/ \E ok \in BOOLEAN, n \in 0..MaxChunks : StreamOpen(ok, n)
  \/ \E up \in BOOLEAN : StreamChunk(up)
  \/ StreamFail
  \/ \E up \in BOOLEAN : StreamEnd(up)

Spec == Init /\ [][Next]_vars

\* the handler together with a task that may set the cancel event of the
\* session while a stream is being forwarded
NextStream == Next \/ ExternalCancel

SpecStream == Init /\ [][NextStream]_vars

\* ------------------------------------------------- Steward (steward.py)
StewardUsers == {"u1", "anonymous"}
Durations == {59, 125}
Modes == {"auto", "handoff", "live"}
SessionIds == 1..MaxCalls

\* keyword parameters the two methods of Steward accept
calculate_credits_params == {"duration_seconds", "is_unique", "ai_on_ai"}
log_call_params ==
  {"user_id", "session_id", "duration_seconds", "scam_type", "is_unique",
   "ai_on_ai"}

\* base 10 credits per whole minute; int(base_credits * multiplier) with the
\* multiplier 1.0 + 2.0 (is_unique) + 1.5 (ai_on_ai), kept in tenths
calculate_credits(duration_seconds, is_unique, ai_on_ai) ==
  LET base_credits == (duration_seconds \div 60) * 10
      multiplier10 == 10 + (IF is_unique THEN 20 ELSE 0)
                         + (IF ai_on_ai THEN 15 ELSE 0)
  IN (base_credits * multiplier10) \div 10

\* int((xp / 100) ** 0.5) + 1
new_level_of(xp) ==
  1 + CHOOSE k \in 0..xp : k * k * 100 <= xp /\ (k + 1) * (k + 1) * 100 > xp

\* INSERT INTO users ... ON CONFLICT(user_id) DO UPDATE SET ...
Upsert_mut_set(user_id, credits_earned, xp_earned, duration_seconds) ==
  [credits |-> credits_earned, level |-> 1, xp |-> xp_earned,
   total_time_wasted |-> duration_seconds]

Upsert(user_id, credits_earned, xp_earned, duration_seconds) ==
  IF user_id \in DOMAIN users
    THEN [users[user_id] EXCEPT !.credits = @ + credits_earned,
                                !.xp = @ + xp_earned,
                                !.total_time_wasted = @ + duration_seconds]
    ELSE [credits |-> credits_earned, level |-> 1, xp |-> xp_earned,
          total_time_wasted |-> duration_seconds]

\* Steward.log_call: what it returns or raises, and the tables it leaves.
\* The INSERT into call_sessions fails on a session_id that is already there,
\* before the commit, and the transaction is dropped.
log_call(user_id, session_id, duration_seconds, is_unique, ai_on_ai) ==
  LET credits_earned == calculate_credits(duration_seconds, is_unique, ai_on_ai)
      xp_earned == duration_seconds \div 10
      row == Upsert(user_id, credits_earned, xp_earned, duration_seconds)
      new_level == new_level_of(row.xp)
  IN IF session_id \in DOMAIN call_sessions
       THEN [raised |-> "IntegrityError", users |-> users,
             call_sessions |-> call_sessions, credits_earned |-> 0,
             new_level |-> 0]
       ELSE [raised |-> "none",
             users |-> [u \in DOMAIN users \cup {user_id} |->
                          IF u = user_id THEN [row EXCEPT !.level = new_level]
                          ELSE users[u]],
             call_sessions |->
               [k \in DOMAIN call_sessions \cup {session_id} |->
                  IF k = session_id
                    THEN [user_id |-> user_id,
                          duration_seconds |-> duration_seconds,
                          credits_earned |-> credits_earned]
                    ELSE call_sessions[k]],
             credits_earned |-> credits_earned,
             new_level |-> new_level]

\* a caller invokes steward.log_call(user_id, session_id, duration_seconds,
\* is_unique=..., ai_on_ai=...)
StewardLogCall(user_id, session_id, duration_seconds, is_unique, ai_on_ai) ==
  LET r == log_call(user_id, session_id, duration_seconds, is_unique, ai_on_ai)
  IN /\ users' = r.users
     /\ call_sessions' = r.call_sessions
     /\ reply' = [NoReply EXCEPT !.op = "log_call",
                                 !.duration = duration_seconds,
                                 !.raised = r.raised,
                                 !.credits_earned = r.credits_earned,
                                 !.new_level = r.new_level]
     /\ UNCHANGED gb
     /\ UNCHANGED bridge

\* a caller invokes steward.calculate_credits(duration_seconds, is_unique=...,
\* ai_on_ai=...), with mode=... as well unless mode is NoneStr
CalculateCredits(duration_seconds, is_unique, ai_on_ai, mode) ==
  LET keywords == {"is_unique", "ai_on_ai"}
                    \cup (IF mode = NoneStr THEN {} ELSE {"mode"})
  IN /\ reply' =
          IF keywords \subseteq calculate_credits_params
            THEN [NoReply EXCEPT
                    !.op = "calculate_credits", !.mode = mode,
                    !.duration = duration_seconds,
                    !.credits_earned =
                       calculate_credits(duration_seconds, is_unique, ai_on_ai)]
            ELSE [NoReply EXCEPT
                    !.op = "calculate_credits", !.mode = mode,
                    !.duration = duration_seconds, !.raised = "TypeError"]
     /\ UNCHANGED <<users, call_sessions>>
     /\ UNCHANGED gb
     /\ UNCHANGED bridge

\* ---------------------------------------- Steward HTTP API (api.py)
\* keyword arguments of the steward.log_call(...) call in the route
api_keywords ==
  {"user_id", "session_id", "duration_seconds", "scam_type", "mode"}

\* POST /api/log_call with the JSON payload data, or with none (~payload);
\* an exception in the view is answered by Flask with status 500
api_log_call(payload, data) ==
  /\ IF ~payload
       THEN /\ reply' = [NoReply EXCEPT !.op = "api_log_call", !.status = 400]
            /\ UNCHANGED <<users, call_sessions>>
       ELSE IF ~(api_keywords \subseteq log_call_params)
         THEN /\ reply' = [NoReply EXCEPT
                             !.op = "api_log_call", !.mode = data.mode,
                             !.duration = data.duration_seconds,
                             !.raised = "TypeError", !.status = 500]
              /\ UNCHANGED <<users, call_sessions>>
         ELSE LET r == log_call(data.user_id, data.session_id,
                                data.duration_seconds, FALSE, FALSE)
              IN /\ users' = r.users
                 /\ call_sessions' = r.call_sessions
                 /\ reply' = [NoReply EXCEPT
                                !.op = "api_log_call", !.mode = data.mode,
                                !.duration = data.duration_seconds,
                                !.raised = r.raised,
                                !.status = IF r.raised = "none" THEN 200
                                           ELSE 500,
                                !.credits_earned = r.credits_earned,
                                !.new_level = r.new_level]
  /\ UNCHANGED gb
  /\ UNCHANGED bridge

\* payloads the bridge's score_session posts
ScoreReports ==
  [user_id : StewardUsers, session_id : {1},
   duration_seconds : Durations, mode : {"auto", "live"}]

\* ------------------------------------------- Foreman (triage.py)
Numbers == {NoneStr, "", "555-0000"}

\* the Learning Repo lookup: requests.post or response.json() raises, or the
\* JSON object answered has is_scam true, false, or no such key
Lookups == {"raises", "scam", "clean", "no_key"}

\* status = response.json(), or {'is_scam': False} in the except branch
triage_status_mut_raise(lookup) == lookup = "scam" \/ lookup = "raises"

triage_status(lookup) == lookup = "scam"

\* POST /triage
triage_call(number, lookup) ==
  /\ reply' =
       IF ~TruthyStr(number)
         THEN [NoReply EXCEPT !.op = "triage", !.number = number,
                              !.status = 400]
       ELSE IF triage_status(lookup)
         THEN [NoReply EXCEPT !.op = "triage", !.number = number,
                              !.lookup = lookup, !.status = 200,
                              !.action = "COMBAT_RING", !.multiplier = "5x",
                              !.persona_suggestion = "Hazel"]
         ELSE [NoReply EXCEPT !.op = "triage", !.number = number,
                              !.lookup = lookup, !.status = 200,
                              !.action = "DEFAULT_RING", !.multiplier = "1x"]
  /\ UNCHANGED <<users, call_sessions>>
  /\ UNCHANGED gb
  /\ UNCHANGED bridge

\* ------------------------------------------------- Actor (actor.py)
\* the Ollama call: requests.post raises, raise_for_status raises, or the
\* model answers with a text
Backends == {"unreachable", "http_error"} \cup Texts
BackendFailed(backend) == backend \in {"unreachable", "http_error"}

ErrorText == "Error connecting to Actor Model"

\* Actor.generate_response: the except branch returns the error as a string
generate_response(backend) ==
  /\ reply' =
       IF BackendFailed(backend)
         THEN [NoReply EXCEPT !.op = "generate_response", !.backend = backend,
                              !.text = ErrorText]
         ELSE [NoReply EXCEPT !.op = "generate_response", !.backend = backend,
                              !.text = backend]
  /\ UNCHANGED <<users, call_sessions>>
  /\ UNCHANGED gb
  /\ UNCHANGED bridge

\* ----------------------------------------- the collaborators' Next
InitServices == Init /\ ~api_key

NextServices ==
  \/ \E u \in StewardUsers, k \in SessionIds, d \in Durations,
        is_unique \in BOOLEAN : StewardLogCall(u, k, d, is_unique, FALSE)
  \/ \E d \in Durations, is_unique \in BOOLEAN, ai_on_ai \in BOOLEAN,
        mode \in Modes \cup {NoneStr} :
        CalculateCredits(d, is_unique, ai_on_ai, mode)
  \/ \E payload \in BOOLEAN, data \in ScoreReports : api_log_call(payload, data)
  \/ \E number \in Numbers, lookup \in Lookups : triage_call(number, lookup)
  \/ \E backend \in Backends : generate_response(backend)

SpecServices == InitServices /\ [][NextServices]_vars

\* --------------------------------------- GhostBuffer (ghost_buffer.py)
\* A Python str is a sequence of pieces; a piece is a literal of the source,
\* an argument, or a line break.
Newline == "\n"
Stamps == {"09:00:00", "09:00:01"}
Speakers == {"User", NoneStr}
Lines == {<<>>, <<"hello">>, <<"yes", Newline, "ok">>}
PersonaPrompts == {"You are Hazel"}

\* f"[{timestamp}] {speaker}: {text}"
Entry(timestamp, speaker, text) ==
  <<"[", timestamp, "] ", speaker, ": ">> \o text

\* sep.join(list)
RECURSIVE Join(_, _)
Join(sep, list) ==
  IF list = <<>> THEN <<>>
  ELSE IF Len(list) = 1 THEN list[1]
  ELSE list[1] \o <<sep>> \o Join(sep, Tail(list))

\* self.buffer.append(entry)
append_mut_front(list, entry) == <<entry>> \o list

append(list, entry) == Append(list, entry)

\* capture_transcript(text, speaker="Scammer"); timestamp is what
\* time.strftime("%H:%M:%S") returns
capture_transcript(text, speaker, timestamp) ==
  /\ Len(buffer) < MaxLines
  /\ LET who == IF speaker = NoneStr THEN "Scammer" ELSE speaker
         entry == Entry(timestamp, who, text)
     IN /\ buffer' = append(buffer, entry)
        /\ ghost' = [op |-> "capture_transcript",
                     calls |-> Append(ghost.calls,
                                      [timestamp |-> timestamp,
                                       speaker |-> who, text |-> text]),
                     ret |-> <<>>]
  /\ UNCHANGED <<users, call_sessions, reply>>
  /\ UNCHANGED bridge

get_context ==
  /\ ghost' = [ghost EXCEPT !.op = "get_context",
                            !.ret = Join(Newline, buffer)]
  /\ UNCHANGED <<buffer, users, call_sessions, reply>>
  /\ UNCHANGED bridge

\* the prompt is returned; the call to Ollama is commented out
trigger_handover(persona_prompt) ==
  /\ LET context == Join(Newline, buffer)
     IN ghost' = [ghost EXCEPT
                    !.op = "trigger_handover",
                    !.ret = <<Newline, "System: ", persona_prompt, Newline,
                              Newline, "Recent Conversation History:",
                              Newline>>
                            \o context
                            \o <<Newline, Newline,
                                 "Human just handed over the call to you. ",
                                 Newline,
                                 "Continue the conversation seamlessly in character.",
                                 Newline>>]
  /\ UNCHANGED <<buffer, users, call_sessions, reply>>
  /\ UNCHANGED bridge

NextGhost ==
  \/ \E text \in Lines, speaker \in Speakers, timestamp \in Stamps :
        capture_transcript(text, speaker, timestamp)
  \/ get_context
  \/ \E persona_prompt \in PersonaPrompts : trigger_handover(persona_prompt)

SpecGhost == InitServices /\ [][NextGhost]_vars

\* ------------------------------------------------------- the claims
Last(seq) == seq[Len(seq)]
CountIn(seq, x) == Cardinality({i \in 1..Len(seq) : seq[i] = x})
ChunksIn(seq) == Cardinality({i \in 1..Len(seq) : seq[i].type = "chunk"})
HasEvent(seq, type) == \E i \in 1..Len(seq) : seq[i].type = type
SpeechReqs == {"tts", "other", "combat"}

\* C1: a session that went Live at t0 and is barged into again is, when the
\* interval is closed at t2 by barge_out or end_session, credited with the
\* one interval t2 - t0: the second barge_in did not move the start of the
\* open interval.
C1_OneContinuousInterval ==
  [][(/\ session.mode = "live"
      /\ Truthy(session.barge_in_time)
      /\ hist.live_since # None
      /\ req' \in {"barge_out", "end_session"}
      /\ session'.session_id = session.session_id
      /\ session'.barge_in_time = None)
     => session'.live_seconds = hist.live_before + (now' - hist.live_since)]_vars

\* C2: a failure raised while one control message is handled (malformed
\* JSON, triage, persona or synthesis failure) is reported as an error event
\* and leaves the handler in its loop, ready for the next message.
MessageFailures == {"json", "triage", "persona", "synthesis"}

C2_ErrorKeepsLoop ==
  failure \in MessageFailures => pc # "closed" /\ HasEvent(sent, "error")

\* C3: when the cancel signal is set while a stream is being forwarded, at
\* most one more chunk is forwarded and the request ends with
\* stream_interrupted, never with done.
C3_CancelStopsStream ==
  /\ hist.late <= 1
  /\ (pc = "handled" /\ hist.cancel_hit)
       => Last(sent).type = "stream_interrupted"

C3_Witness ==
  /\ pc = "handled"
  /\ hist.cancel_hit
  /\ hist.upstream = MaxChunks
  /\ ChunksIn(sent) = 1
  /\ Last(sent).type = "stream_interrupted"

\* C4: a tts or combat request handled after a barge_in with no barge_out in
\* between (the session is Live) forwards every chunk of the synthesis
\* response and ends with done: the signal set by the barge_in was cleared
\* before the stream started.
C4_CancelDoesNotLeak ==
  (/\ pc = "handled"
   /\ req \in SpeechReqs
   /\ session.mode = "live"
   /\ hist.upstream # None)
  => /\ Last(sent).type = "done"
     /\ ChunksIn(sent) = hist.upstream

C4_Witness ==
  /\ pc = "handled"
  /\ req = "tts"
  /\ session.mode = "live"
  /\ hist.upstream = MaxChunks
  /\ ChunksIn(sent) = MaxChunks
  /\ Last(sent).type = "done"

\* C5: a disconnect met at receive while the session is Live with time on
\* its open interval makes exactly one scoring submission for the session,
\* built after the interval was closed: live_seconds > 0 and mode "live".
C5_DisconnectWhileLive ==
  (/\ pc = "closed"
   /\ hist.exit_via = "WebSocketDisconnect"
   /\ hist.exit_at = "recv"
   /\ hist.exit_live)
  => /\ CountIn(scored, session.session_id) = 1
     /\ Len(posted) = 1
     /\ posted[1].session_id = session.session_id
     /\ posted[1].mode = "live"
     /\ session.live_seconds > 0
     /\ session.barge_in_time = None

C5_Witness ==
  /\ pc = "closed"
  /\ hist.exit_via = "WebSocketDisconnect"
  /\ hist.exit_at = "recv"
  /\ hist.exit_live
  /\ posted # <<>>
  /\ posted[1].mode = "live"

\* C6: a disconnect that surfaces at a chunk send ends the session as a
\* disconnect at receive does: the open interval is closed, the session is
\* inactive, it was submitted to scoring once, and no error event was sent.
C6_MidStreamDisconnectEndsSession ==
  (pc = "closed" /\ hist.exit_at = "chunk")
  => /\ ~session.is_active
     /\ session.barge_in_time = None
     /\ CountIn(scored, session.session_id) = 1
     /\ ~HasEvent(sent, "error")

\* C7: the session_scored message of end_session reports values with
\* |total_duration - (live_seconds + auto_seconds)| <= 1 second, however
\* long the scoring call took.
C7_ScoredSumsUp ==
  (pc = "handled" /\ req = "end_session")
  => LET m == Last(sent)
         d == m.total_duration - (m.live_seconds + m.auto_seconds)
     IN d <= 1 /\ -d <= 1

\* C8 as claimed: the whole-second total_duration is at least the fractional
\* live_seconds in every reachable state.
C8_TotalAtLeastLive ==
  total_duration(session, now) * TicksPerSec >= session.live_seconds

\* C8 as amended: the time elapsed since start_time is at least live_seconds,
\* so total_duration is at least int(live_seconds); it can fall short of the
\* fractional live_seconds, by less than a second.
C8_ElapsedAtLeastLive ==
  \A t \in Clock :
    /\ t - session.start_time >= session.live_seconds
    /\ total_duration(session, t) >= IntSec(session.live_seconds)
    /\ (total_duration(session, t) + 1) * TicksPerSec > session.live_seconds

C8_Witness ==
  /\ pc = "handled"
  /\ req = "barge_out"
  /\ session.live_seconds > 0
  /\ total_duration(session, now) * TicksPerSec < session.live_seconds

\* C9: live_seconds of a session never decreases from one state to the next.
C9_LiveSecondsMonotone ==
  [][session'.session_id = session.session_id
     => session'.live_seconds >= session.live_seconds]_vars

C9_Witness ==
  /\ pc = "handled"
  /\ req \in SpeechReqs
  /\ session.live_seconds > 0

\* C10 as claimed: in every reachable state, also after end() has run, the
\* open-interval timestamp is set exactly when mode is live.
C10_OpenIffLive ==
  (session.barge_in_time # None) <=> (session.mode = "live")

\* C10 as amended: the open-interval timestamp is set exactly when mode is
\* live in every state of a session that is active, that is until end() has
\* run; end() clears the timestamp and leaves mode as it was.
C10_OpenIffLiveWhileActive ==
  /\ session.is_active
       => ((session.barge_in_time # None) <=> (session.mode = "live"))
  /\ ~session.is_active => session.barge_in_time = None

C10_Witness ==
  /\ pc = "scoring"
  /\ session.mode = "live"
  /\ session.barge_in_time = None
  /\ session.live_seconds > 0

\* C11: a triage call that fails in a combat request does not abort the
\* request: no error event is sent for it, the streaming status is sent and
\* the handler goes on to the persona response and the synthesis.
C11_TriageFailureDegrades ==
  failure = "triage"
  => /\ HasEvent(sent, "streaming")
     /\ ~HasEvent(sent, "error")
     /\ pc # "closed"

\* C12: when the persona-response call of a combat request fails, the client
\* is sent one error event for the request and nothing else: no streaming
\* status, no chunk, no done, and no synthesis stream was opened.
C12_PersonaFailureAborts ==
  failure = "persona"
  => /\ req = "combat"
     /\ Len(sent) = 1
     /\ sent[1].type = "error"
     /\ ~HasEvent(sent, "streaming")
     /\ ChunksIn(sent) = 0
     /\ ~HasEvent(sent, "done")
     /\ hist.upstream = None
     /\ stream = NoStream
     /\ pc \notin {"open", "stream"}

C12_Witness ==
  /\ failure = "persona"
  /\ req = "combat"
  /\ session.persona = "rex"
  /\ sent = <<ErrorEv("persona")>>

\* C13: a tts request without text or with empty text, and a combat request
\* whose persona response is empty, are answered with an error event, with no
\* chunk, no done and no synthesis stream; unless the client has gone the
\* handler is then ready for the next message.
C13_EmptyTextRejected ==
  (req \in SpeechReqs /\ hist.text = "")
  => /\ ChunksIn(sent) = 0
     /\ ~HasEvent(sent, "done")
     /\ hist.upstream = None
     /\ stream = NoStream
     /\ pc = "handled" \/ (pc = "closed" /\ conn = "gone")
     /\ pc = "handled" => /\ Last(sent) = ErrorEv("No text provided")
                          /\ failure = "none"
                          /\ conn = "open"

C13_Witness ==
  /\ req = "combat"
  /\ hist.text = ""
  /\ pc = "handled"
  /\ Len(sent) = 2
  /\ sent[1].type = "streaming"
  /\ sent[2] = ErrorEv("No text provided")

\* C14: a tts or combat request handled while the API key or the voice id is
\* missing is answered with the configuration error and nothing else: no
\* triage or persona call was made, no text was looked at, no stream was
\* opened, no chunk was sent, and unless the client has gone the handler is
\* ready for the next message.
C14_NotConfiguredRejected ==
  (req \in SpeechReqs /\ (~api_key \/ ~TruthyStr(hist.voice)))
  => /\ ChunksIn(sent) = 0
     /\ ~HasEvent(sent, "streaming")
     /\ ~HasEvent(sent, "done")
     /\ hist.text = NoneStr
     /\ hist.upstream = None
     /\ stream = NoStream
     /\ failure \notin {"triage", "persona", "synthesis"}
     /\ pc = "handled" \/ (pc = "closed" /\ conn = "gone")
     /\ pc = "handled" => /\ sent = <<ErrorEv("ElevenLabs not configured")>>
                          /\ conn = "open"

C14_Witness ==
  /\ req = "combat"
  /\ api_key
  /\ hist.voice = ""
  /\ pc = "handled"
  /\ session.caller_number = "unknown"
  /\ sent = <<ErrorEv("ElevenLabs not configured")>>

\* C15: a message whose action is none of barge_in, barge_out, end_session,
\* combat, tts is answered with an error event and is never handled as a tts
\* request: no text of it is spoken and no synthesis stream is opened for it.
C15_UnknownActionRejected ==
  req = "other"
  => /\ pc \notin {"open", "stream"}
     /\ hist.upstream = None
     /\ ChunksIn(sent) = 0
     /\ ~HasEvent(sent, "done")
     /\ pc = "handled" => Last(sent).type = "error"

\* C16: no session id is posted to the Steward twice, whatever the order of
\* end_session messages and a disconnect, a disconnect met at the send of
\* session_scored included.
C16_ScoredAtMostOnce ==
  \A i, j \in 1..Len(scored) : i # j => scored[i] # scored[j]

C16_Witness ==
  /\ pc = "closed"
  /\ req = "end_session"
  /\ hist.exit_via = "WebSocketDisconnect"
  /\ hist.exit_at = "send"
  /\ ~hist.exit_active
  /\ scored = <<session.session_id>>

\* C17: whatever the outcome of the scoring call, a result or none because
\* the call failed, end_session then sends session_scored for the ended
\* session to the connected client, replaces the session by a fresh active
\* one, and raises nothing: no error event is sent.
C17_ScoringFailureSwallowed ==
  [][(pc = "scoring" /\ conn' = "open")
     => /\ ~session.is_active
        /\ pc' = "handled"
        /\ Len(sent') = 1
        /\ sent'[1].type = "session_scored"
        /\ sent'[1].session_id = session.session_id
        /\ sent'[1].steward \in {"ok", NoneStr}
        /\ session' = NewActiveSession(next_id, now')
        /\ session'.session_id # session.session_id
        /\ failure' = "none"]_vars

C17_Witness ==
  /\ pc = "handled"
  /\ req = "end_session"
  /\ Len(sent) = 1
  /\ sent[1].type = "session_scored"
  /\ sent[1].steward = NoneStr
  /\ session.is_active
  /\ scored = <<sent[1].session_id>>

\* C18: every payload posted to the Steward is built from a session whose
\* open interval has been closed, and its mode is "live" exactly when the
\* live_seconds of that session is > 0, "auto" otherwise.
C18_ReportMode ==
  /\ pc = "scoring" => Len(posted) = 1
  /\ \A i \in 1..Len(posted) :
       /\ posted[i].mode \in {"live", "auto"}
       /\ posted[i].session_id = session.session_id
          => /\ session.barge_in_time = None
             /\ ~session.is_active
             /\ posted[i].mode = "live" <=> session.live_seconds > 0

C18_Witness ==
  /\ pc = "scoring"
  /\ posted # <<>>
  /\ posted[1].session_id = session.session_id
  /\ posted[1].mode = "live"
  /\ session.mode = "auto"
  /\ session.live_seconds > 0

\* C19: once end_session has been processed the handler holds a fresh
\* session: a new id, mode auto, user_id "anonymous", live_seconds 0, no
\* open interval, cancel clear, active; and whenever the handler is reading
\* or handling a message other than that end_session, its session is active
\* and has never been posted to the Steward.
C19_FreshSessionAfterEnd ==
  /\ pc \notin {"scoring", "closed"}
     => /\ session.is_active
        /\ CountIn(scored, session.session_id) = 0
  /\ (pc = "handled" /\ req = "end_session")
     => /\ session.session_id # Last(sent).session_id
        /\ Last(scored) = Last(sent).session_id
        /\ session.mode = "auto"
        /\ session.user_id = "anonymous"
        /\ session.live_seconds = 0
        /\ session.barge_in_time = None
        /\ ~session.cancel
        /\ session.is_active
        /\ session = NewActiveSession(session.session_id, now)

C19_Witness ==
  /\ pc = "handled"
  /\ req = "end_session"
  /\ Last(sent).type = "session_scored"
  /\ Last(sent).live_seconds > 0
  /\ scored = <<1>>
  /\ session.session_id = 2
  /\ session.user_id = "anonymous"

\* C20: a barge_out handled at the very clock reading at which the last
\* barge_in was handled and acknowledged leaves live_seconds at its value
\* before that barge_in, puts the session in auto with no open interval, and
\* sends barge_out_ack, after the barge_in_ack already sent.
C20_ZeroLengthLive ==
  [][(/\ pc = "recv"
      /\ hist.in_ack # None
      /\ hist.in_ack = now'
      /\ req' = "barge_out"
      /\ pc' = "handled")
     => /\ session.barge_in_time = hist.in_ack
        /\ session'.live_seconds = session.live_seconds
        /\ session'.live_seconds = hist.live_before
        /\ session'.mode = "auto"
        /\ session'.barge_in_time = None
        /\ ~session'.cancel
        /\ sent' = <<BargeOutAck(session', session'.persona)>>]_vars

C20_Witness ==
  /\ pc = "handled"
  /\ req = "barge_out"
  /\ session.user_id = "u1"
  /\ session.live_seconds = 0
  /\ session.mode = "auto"
  /\ session.barge_in_time = None
  /\ now > T0
  /\ sent = <<BargeOutAck(session, session.persona)>>

\* C21: a barge_out handled while the session is in auto leaves live_seconds,
\* the mode and the absent open interval as they were, and barge_out_ack is
\* sent to the connected client.
C21_BargeOutWhileAuto ==
  [][(pc = "recv" /\ session.mode = "auto" /\ req' = "barge_out")
     => /\ session.barge_in_time = None
        /\ session'.live_seconds = session.live_seconds
        /\ session'.mode = "auto"
        /\ session'.barge_in_time = None
        /\ session'.session_id = session.session_id
        /\ conn' = "open"
           => /\ pc' = "handled"
              /\ sent' = <<BargeOutAck(session', session'.persona)>>]_vars

C21_Witness ==
  /\ pc = "handled"
  /\ req = "barge_out"
  /\ ~hist.barged
  /\ now > T0
  /\ session.live_seconds = 0
  /\ session.mode = "auto"
  /\ sent = <<BargeOutAck(session, "rex")>>

\* C22: for a session on which barge_in was never called, the session_scored
\* message of end_session reports live_seconds = 0 and auto_seconds equal to
\* total_duration.
C22_NoBargeInAllAuto ==
  [][(pc = "scoring" /\ ~hist.barged /\ pc' = "handled")
     => /\ Last(sent').type = "session_scored"
        /\ Last(sent').live_seconds = 0
        /\ Last(sent').auto_seconds = Last(sent').total_duration]_vars

\* the first Live interval of the session is open, begun by one barge_in
OneLiveInterval ==
  /\ session.mode = "live"
  /\ hist.live_since # None
  /\ hist.live_since = session.barge_in_time
  /\ hist.live_before = 0

\* C23 as claimed: after barge_in and a Live time d, the live_seconds that
\* barge_out_ack reports is within 0.2 s of d, for every d.
C23_ReportedWithinTolerance ==
  [][(pc = "recv" /\ OneLiveInterval /\ req' = "barge_out" /\ pc' = "handled")
     => LET d == now' - hist.live_since
            reported == sent'[1].live_seconds * TicksPerSec
        IN /\ 10 * (d - reported) <= 2 * TicksPerSec
           /\ 10 * (reported - d) <= 2 * TicksPerSec]_vars

\* C23 as amended: after barge_in and a Live time d, live_seconds of the
\* session is d and barge_out_ack reports d cut to whole seconds: reported
\* <= d < reported + 1; session_scored reports the session's live_seconds cut
\* to whole seconds in the same way.
C23_ReportedWholeSeconds ==
  [][/\ (pc = "recv" /\ OneLiveInterval /\ req' = "barge_out"
           /\ pc' = "handled")
        => LET d == now' - hist.live_since
               reported == sent'[1].live_seconds
           IN /\ session'.live_seconds = d
              /\ reported * TicksPerSec <= d
              /\ d < (reported + 1) * TicksPerSec
     /\ (pc = "scoring" /\ pc' = "handled")
        => LET reported == Last(sent').live_seconds
           IN /\ reported * TicksPerSec <= session.live_seconds
              /\ session.live_seconds < (reported + 1) * TicksPerSec]_vars

C23_Witness ==
  /\ pc = "handled"
  /\ req = "end_session"
  /\ Last(sent).type = "session_scored"
  /\ Last(sent).live_seconds = 1
  /\ Last(sent).auto_seconds = 0
  /\ Last(sent).total_duration >= 1

\* the streaming status ev carries the triage result, the actor text, and the
\* id and mode of the session
CarriesResults(ev) ==
  /\ ev.type = "streaming"
  /\ ev.triage = "triage"
  /\ ev.actor_text = hist.text
  /\ ev.session_id = session.session_id
  /\ ev.mode = session.mode

C25_SynthesisRefused ==
  [][(pc = "open" /\ hist'.upstream = None)
     => /\ pc' = "closed"
        /\ failure' = "synthesis"
        /\ sent' = Append(sent, ErrorEv("synthesis"))
        /\ ChunksIn(sent') = 0
        /\ ~HasEvent(sent', "done")
        /\ ~HasEvent(sent', "stream_interrupted")
        /\ stream' = NoStream]_vars

C25_Witness ==
  /\ pc = "closed"
  /\ req = "combat"
  /\ failure = "synthesis"
  /\ hist.upstream = None
  /\ Len(sent) = 2
  /\ sent[1].type = "streaming"
  /\ sent[2] = ErrorEv("synthesis")

\* C29: a control message is taken up only when the handler is back at
\* receive with no request in hand and no stream open; while a request is
\* being scored, opened or streamed the message in hand stays the same, and
\* chunks are outstanding only while that one request is streaming.
C29_Sequential ==
  [][/\ (req' # req /\ req' # "none")
        => /\ pc = "recv"
           /\ req = "none"
           /\ sent = <<>>
           /\ stream = NoStream
     /\ pc \in {"scoring", "open", "stream"} => req' = req
     /\ pc' = "stream" => pc \in {"open", "stream"}
     /\ stream'.left > 0 => pc' = "stream" /\ req' \in SpeechReqs]_vars

C29_Witness ==
  /\ pc = "stream"
  /\ req = "tts"
  /\ conn = "open"
  /\ stream.total = MaxChunks
  /\ stream.left = 1
  /\ ChunksIn(sent) = MaxChunks - 1

\* C26: when the model backend call fails, generate_response signals an
\* error to its caller and hands back no text to be spoken as the persona's
\* reply.
C26_FailureNotText ==
  (reply.op = "generate_response" /\ BackendFailed(reply.backend))
  => /\ reply.raised # "none"
     /\ reply.text = NoneStr

ModeMultiplier(mode) ==
  CASE mode = "auto" -> 1 [] mode = "handoff" -> 2 [] mode = "live" -> 5

\* C28: calculate_credits accepts a mode, and a ScoreReport posted by the
\* bridge is accepted and credited with the multiplier of its mode: 1x for
\* auto, 5x for live, on 10 credits per whole minute.
C28_ModeMultiplier ==
  /\ (reply.op = "calculate_credits" /\ reply.mode # NoneStr)
     => reply.raised = "none"
  /\ reply.op = "api_log_call" /\ reply.mode # NoneStr
     => /\ reply.status = 200
        /\ reply.credits_earned
             = ModeMultiplier(reply.mode) * (reply.duration \div 60) * 10

\* sums over the rows of call_sessions with keys in ks
RECURSIVE SumOver(_, _)
SumOver(ks, field) ==
  IF ks = {} THEN 0
  ELSE LET k == CHOOSE x \in ks : TRUE
           row == call_sessions[k]
           v == CASE field = "duration" -> row.duration_seconds
                  [] field = "xp" -> row.duration_seconds \div 10
                  [] field = "credits" -> row.credits_earned
       IN v + SumOver(ks \ {k}, field)

CallsOf(u) == {k \in DOMAIN call_sessions : call_sessions[k].user_id = u}

UserTotals ==
  \A u \in StewardUsers :
    IF CallsOf(u) = {}
      THEN u \notin DOMAIN users
      ELSE /\ u \in DOMAIN users
           /\ users[u].total_time_wasted = SumOver(CallsOf(u), "duration")
           /\ users[u].xp = SumOver(CallsOf(u), "xp")
           /\ users[u].credits = SumOver(CallsOf(u), "credits")

\* C30: after any sequence of log_call operations that succeeded, with
\* distinct session ids, every user's total_time_wasted, xp and credits are
\* the sums over that user's calls of the duration, of duration \div 10 and of
\* the credits_earned returned; a user exists exactly when a call was logged
\* for it, and a call leaves the rows of all other users as they were.
C30_StewardTotals ==
  /\ []UserTotals
  /\ [][(reply'.op = "log_call" /\ reply'.raised = "none"
           /\ call_sessions' # call_sessions)
        => \E k \in DOMAIN call_sessions' \ DOMAIN call_sessions :
             /\ DOMAIN call_sessions' = DOMAIN call_sessions \cup {k}
             /\ call_sessions'[k].credits_earned = reply'.credits_earned
             /\ DOMAIN users' = DOMAIN users \cup {call_sessions'[k].user_id}
             /\ \A u \in DOMAIN users :
                  u # call_sessions'[k].user_id => users'[u] = users[u]
             /\ \A j \in DOMAIN call_sessions :
                  call_sessions'[j] = call_sessions[j]]_vars

C30_Witness ==
  /\ DOMAIN users = StewardUsers
  /\ DOMAIN call_sessions = SessionIds
  /\ Cardinality(CallsOf("u1")) >= 2
  /\ users["u1"].credits = SumOver(CallsOf("u1"), "credits")
  /\ users["u1"].credits >= 40
  /\ users["u1"].total_time_wasted >= 2 * 59

\* C31: the GhostBuffer is an append-only ordered log.  The buffer holds one
\* entry per capture_transcript call, in call order, each "[time] speaker:
\* text"; get_context returns the entries with one line break between
\* neighbours (the empty string for an empty buffer); get_context and
\* trigger_handover leave the buffer as it was.
RECURSIVE OffsetOf(_)
OffsetOf(i) == IF i = 1 THEN 0 ELSE OffsetOf(i - 1) + Len(buffer[i - 1]) + 1

LoggedInOrder ==
  /\ Len(buffer) = Len(ghost.calls)
  /\ \A i \in 1..Len(buffer) :
       LET c == ghost.calls[i]
       IN /\ buffer[i][1] = "[" /\ buffer[i][2] = c.timestamp
          /\ buffer[i][3] = "] " /\ buffer[i][4] = c.speaker
          /\ buffer[i][5] = ": "
          /\ SubSeq(buffer[i], 6, Len(buffer[i])) = c.text

JoinedByNewlines ==
  ghost.op = "get_context" =>
    /\ buffer = <<>> => ghost.ret = <<>>
    /\ buffer # <<>> =>
         Len(ghost.ret) = OffsetOf(Len(buffer)) + Len(Last(buffer))
    /\ \A i \in 1..Len(buffer) :
         /\ SubSeq(ghost.ret, OffsetOf(i) + 1, OffsetOf(i) + Len(buffer[i]))
              = buffer[i]
         /\ i > 1 => ghost.ret[OffsetOf(i)] = Newline

C31_AppendOnlyLog ==
  /\ [](LoggedInOrder /\ JoinedByNewlines)
  /\ [][ghost'.op \in {"get_context", "trigger_handover"}
          => buffer' = buffer]_vars

C31_Witness ==
  /\ ghost.op = "get_context"
  /\ Len(buffer) = MaxLines
  /\ ghost.calls[1].text # ghost.calls[2].text
  /\ ghost.calls[1].speaker = "Scammer"
  /\ ghost.calls[2].speaker = "User"
  /\ Len(ghost.ret) > Len(buffer[1]) + 1

\* C32: live_seconds of a session changes only in a step that closes its
\* open Live interval, which is a barge_out, an end_session or a disconnect
\* taken while the session is Live, and then by the length of that interval;
\* barge_in, tts, combat and a barge_out while Auto leave it as it was.
\* (A step of the handler whose send fails runs the disconnect handler as
\* well: the session was Live when the disconnect was raised.)
C32_LiveSecondsFrame ==
  [][(/\ session'.session_id = session.session_id
      /\ session'.live_seconds # session.live_seconds)
     => /\ session'.barge_in_time = None
        /\ \/ /\ req' \in {"barge_out", "end_session"}
              /\ session.mode = "live"
              /\ Truthy(session.barge_in_time)
              /\ pc' # "closed" =>
                   session'.live_seconds
                     = session.live_seconds + (now' - session.barge_in_time)
           \/ /\ pc' = "closed"
              /\ hist'.exit_via = "WebSocketDisconnect"
              /\ hist'.exit_live]_vars

\* a Live session that had live time before, was barged into twice and has
\* handled a tts request since: live_seconds is what it was
C32_Witness ==
  /\ pc = "handled"
  /\ req \in {"tts", "combat"}
  /\ session.mode = "live"
  /\ session.live_seconds > 0
  /\ hist.live_before = session.live_seconds
  /\ hist.live_since # None
  /\ session.barge_in_time > hist.live_since

\* C33: the step in which a tts or combat message is answered with an error
\* event (not configured, no text, or an upstream failure) leaves the
\* session as it was before the message: id, mode, user_id, caller_number,
\* persona, live_seconds, the open interval and the active flag.
SameSession(s1, s2) ==
  /\ s1.session_id = s2.session_id
  /\ s1.mode = s2.mode
  /\ s1.user_id = s2.user_id
  /\ s1.caller_number = s2.caller_number
  /\ s1.persona = s2.persona
  /\ s1.live_seconds = s2.live_seconds
  /\ s1.barge_in_time = s2.barge_in_time
  /\ s1.is_active = s2.is_active

C33_ErrorLeavesSession ==
  [][(/\ req' \in SpeechReqs
      /\ ~HasEvent(sent, "error")
      /\ HasEvent(sent', "error"))
     => SameSession(session, session')]_vars

\* C34: the binary frames sent for a tts or combat request are the first
\* chunks of the synthesis response, in its order, none lost, repeated or
\* out of place; a chunk is forwarded before the next one is taken from the
\* response; a request that ends with done has forwarded the whole response.
IsChunk(ev) == ev.type = "chunk"
Frames == SelectSeq(sent, IsChunk)

C34_FramesArePrefix ==
  /\ hist.upstream = None => Frames = <<>>
  /\ hist.upstream # None =>
       /\ Len(Frames) <= hist.upstream
       /\ \A k \in 1..Len(Frames) : Frames[k].seq = k
       /\ pc = "stream" =>
            /\ stream.total = hist.upstream
            /\ stream.total - stream.left = Len(Frames)
       /\ (sent # <<>> /\ Last(sent).type = "done") =>
            Len(Frames) = hist.upstream

C34_Witness ==
  /\ pc = "handled"
  /\ req = "combat"
  /\ hist.upstream = MaxChunks
  /\ Len(sent) = MaxChunks + 2
  /\ sent[1].type = "streaming"
  /\ \A k \in 1..MaxChunks : sent[k + 1] = [type |-> "chunk", seq |-> k]
  /\ Last(sent).type = "done"

\* C35: from the clearing of the cancel signal to the terminal status of a
\* request the handler reads no message, so the mode and the signal stay as
\* they are and the signal is clear all the time; every stream that runs to
\* its terminal status ends with done, and stream_interrupted is never sent.
Forwarding == pc \in {"open", "stream"}

TerminalTypes == {"done", "stream_interrupted", "error"}

C36_OneTerminalEvent ==
  req \in SpeechReqs =>
    /\ \A i \in 1..Len(sent) : sent[i].type \in TerminalTypes => i = Len(sent)
    /\ (pc \in {"handled", "closed"} /\ conn = "open") =>
         /\ sent # <<>>
         /\ Last(sent).type \in TerminalTypes

\* a combat request whose synthesis response broke off after a chunk
C36_Witness ==
  /\ pc = "closed"
  /\ req = "combat"
  /\ conn = "open"
  /\ Len(sent) = 3
  /\ sent[1].type = "streaming"
  /\ sent[2].type = "chunk"
  /\ sent[3].type = "error"

\* C37: whenever the connection handler has terminated, by a disconnect or
\* by any other failure, the session it held has been ended (no open
\* interval, not active) and was submitted to scoring exactly once.
C37_EndedOnTermination ==
  pc = "closed" =>
    /\ ~session.is_active
    /\ session.barge_in_time = None
    /\ CountIn(scored, session.session_id) = 1

\* C38: when end_session has been handled, the duration_seconds posted to
\* the Steward for the session equals the total_duration of the
\* session_scored message sent to the client, however long the call took.
C38_SameDuration ==
  (pc = "handled" /\ req = "end_session")
  => /\ Len(posted) = 1
     /\ Last(sent).type = "session_scored"
     /\ Last(sent).session_id = posted[1].session_id
     /\ Last(sent).total_duration = posted[1].duration_seconds

\* C39: the clock never runs backwards, and in every reachable state the
\* live time of the session, the running interval included, is at most the
\* time since its start_time; so the auto_seconds that end() computes as
\* total - live_seconds is never negative.
OpenLive(s, t) == IF Truthy(s.barge_in_time) THEN t - s.barge_in_time ELSE 0

C39_AutoNeverNegative ==
  /\ session.start_time <= now
  /\ Truthy(session.barge_in_time) =>
       /\ session.start_time <= session.barge_in_time
       /\ session.barge_in_time <= now
  /\ session.live_seconds >= 0
  /\ session.live_seconds + OpenLive(session, now) <= now - session.start_time
  /\ session.auto_seconds >= 0
  /\ ~session.is_active =>
       session.auto_seconds + session.live_seconds <= now - session.start_time

\* end() has run on a session that was Live for part of its time
C39_Witness ==
  /\ pc = "scoring"
  /\ session.live_seconds > 0
  /\ session.auto_seconds > 0
  /\ session.auto_seconds + session.live_seconds = now - session.start_time

\* C40: whenever the handler waits for the next control message, a cancel
\* signal that is set belongs to a session in mode live: only a barge_in
\* sets the signal, and it is cleared by a barge_out, by the start of a
\* synthesis stream, and by the fresh session that follows end_session.
C40_CancelImpliesLive ==
  /\ []((pc \in {"recv", "handled"} /\ session.cancel)
          => session.mode = "live")
  /\ [][/\ (~session.cancel /\ session'.cancel) => req' = "barge_in"
        /\ (session.cancel /\ ~session'.cancel) =>
             \/ req' = "barge_out"
             \/ pc' = "open"
             \/ session'.session_id # session.session_id
        /\ req' = "barge_out" => ~session'.cancel
        /\ pc' = "open" => ~session'.cancel
        /\ session'.session_id # session.session_id => ~session'.cancel]_vars

\* the second session of a connection, barged into, waiting at receive
C40_Witness ==
  /\ pc = "recv"
  /\ session.session_id > 1
  /\ session.cancel
  /\ session.mode = "live"
====
